---- MODULE Spec2Model ----
(***************************************************************************)
(* Geodash: the per-frame simulation step of GameRunner (update), its      *)
(* input latch and the reports it makes to its host (onDie, onWin,         *)
(* onTestComplete).  Spec is a GameRunner mounted on its own; SpecApp is   *)
(* App with the GameRunner it renders; SpecInput follows which input       *)
(* sources are physically down; SpecFar is a procedural run picked up just *)
(* before x = length * TILE_SIZE.                                          *)
(*                                                                         *)
(* Number representation.  Vertical quantities (position.y, velocity.y)    *)
(* are whole pixels: every constant that feeds them is an integer.         *)
(* Horizontal quantities (position.x, velocity.x, lastPortalX) advance by  *)
(* MOVE_SPEED * speedMultiplier with speedMultiplier one of 0.8, 1.0, 1.2, *)
(* 1.4, so they are kept in tenths of a pixel and speedMultiplier in       *)
(* tenths (8, 10, 12, 14); Fx is that denominator.  timeRef is kept as the *)
(* number of 0.05 increments added so far.                                 *)
(***************************************************************************)
EXTENDS Integers, Sequences, FiniteSets, TLC

\* ---------------------------------------------------------------- constants
TILE_SIZE == 48
GRAVITY == 2
JUMP_FORCE == -24
ORB_JUMP_FORCE == -21
ORB_JUMP_PURPLE_FORCE == -15
ORB_JUMP_RED_FORCE == -34
MOVE_SPEED == 9
TERMINAL_VELOCITY == 30
CEILING_HEIGHT == 12
PORTAL_HEIGHT_BLOCKS == 3
Fx == 10
orbRadius == 32
ProceduralLength == 100000

\* ------------------------------------------------------------------- bounds
MaxTicks == 270
MaxAfter == 2

\* the runs one App session starts
MaxKey == 2

\* the tick at which the run of SpecFar is picked up, a few ticks before a
\* player moving at MOVE_SPEED since tick 0 passes x = 100000 * TILE_SIZE, and
\* the ticks followed from there
FarTick == 533330
MaxFarTicks == 12
MaxCredit == 1

\* ------------------------------------------------------------------- levels
Obj(t, gx, gy) == [type |-> t, x |-> gx, y |-> gy]

\* every level here derives from DEFAULT_LEVEL and keeps its musicUrl
Level(objs, len, mode) ==
  [objects |-> objs, length |-> len, gameMode |-> mode, musicUrl |-> "MUSIC_EDITOR"]

\* constants.ts DEFAULT_LEVEL, with the length of the win-threshold property
DEFAULT_OBJECTS ==
  << Obj("BLOCK", 10, 1), Obj("BLOCK", 11, 1), Obj("SPIKE", 15, 1) >>

Abs(n) == IF n < 0 THEN -n ELSE n

\* ---------------------------------------------------------------- variables
VARIABLES
  currentLevel,    \* LevelData the loop effect closes over
  isProcedural,    \* prop
  isTestMode,      \* prop
  onTestComplete,  \* prop: TRUE iff the host supplied the callback
  player,          \* playerRef.current
  inputRef,        \* inputRef.current: [jump, jumpPressedThisFrame]
  timeRef,         \* timeRef.current, in increments of 0.05
  recordedTrail,   \* recordedTrailRef.current
  calls,           \* the host callbacks invoked so far, in order
  requestRef,      \* TRUE while requestRef.current names a pending frame callback
  frames,          \* the frame callbacks pending in the browser
  audioRef,        \* TRUE while audioRef.current holds an Audio
  audio,           \* the Audio elements created and not paused
  afterTicks,      \* frames run since the first report (bounds the model)
  heldOrbs,        \* orb activations since the last release (observation only)
  lastFlipX,       \* x of the run's last gravity-portal flip, -1 if none (observation only)
  orbLog,          \* presses not yet used by an orb, orb activations of the run (observation only)
  gameState,       \* App's gameState; "NONE" when GameRunner is mounted alone
  levelData,       \* App's levelData, the level prop
  key,             \* App's key, the React key of the GameRunner element
  down,            \* the input sources physically pressed (followed in SpecInput)
  ev               \* what the last executed update did (observation only)

vars == << currentLevel, isProcedural, isTestMode, onTestComplete, player,
           inputRef, timeRef, recordedTrail, calls, requestRef, afterTicks, heldOrbs,
           lastFlipX, orbLog,
           gameState, levelData, key, down, frames, audioRef, audio, ev >>

resources == << frames, audioRef, audio >>

hostVars == << gameState, levelData, key >>

props == << currentLevel, isProcedural, isTestMode, onTestComplete >>

\* ------------------------------------------------------------ player state
InitialPlayer ==
  [ position        |-> [x |-> 0, y |-> 0],
    velocity        |-> [x |-> MOVE_SPEED * Fx, y |-> 0],
    isGrounded      |-> TRUE,
    isDead          |-> FALSE,
    gravityScale    |-> 1,
    canOrbJump      |-> TRUE,
    speedMultiplier |-> Fx,
    lastPortalX     |-> 0 ]

\* (player as any).lastPortalX || -1000 : an unset (or zero) field reads -1000
LastPortalX(p) == IF p.lastPortalX = 0 THEN -1000 * Fx ELSE p.lastPortalX

\* ---------------------------------------------------------------- geometry
checkCollision(r1, r2) ==
  /\ r1.x < r2.x + r2.w
  /\ r1.x + r1.w > r2.x
  /\ r1.y < r2.y + r2.h
  /\ r1.y + r1.h > r2.y

IsOrb(t) == t \in {"ORB_JUMP", "ORB_GRAVITY", "ORB_JUMP_PURPLE", "ORB_JUMP_RED"}

IsPortal(t) ==
  t \in {"PORTAL_GRAVITY", "PORTAL_SPEED_SLOW", "PORTAL_SPEED_NORMAL",
         "PORTAL_SPEED_FAST", "PORTAL_SPEED_VERY_FAST"}

\* pixel position of a grid cell: objX = obj.x * TILE_SIZE (in tenths),
\* objY = -obj.y * TILE_SIZE
ObjX(obj) == obj.x * TILE_SIZE * Fx

ObjY(obj) == -(obj.y * TILE_SIZE)

\* the player's inset hitbox, taken once per tick after the vertical advance
PRect(p) ==
  [ x |-> p.position.x + 10 * Fx,
    y |-> p.position.y - TILE_SIZE + 10,
    w |-> (TILE_SIZE - 20) * Fx,
    h |-> TILE_SIZE - 20 ]

\* rotation?: number, one of 0, 90, 180, 270; a missing field reads as 0
Rotation(obj) == IF "rotation" \in DOMAIN obj THEN obj.rotation ELSE 0

\* a hitbox that turns with the object: rotated by 180 degrees, the box of a
\* spike or half spike is mirrored within its tile
HitBoxTurned(obj) ==
  LET top == IF obj.type = "SPIKE" THEN 14 ELSE IF obj.type = "HALF_SPIKE" THEN 28 ELSE 0
      inset == obj.type \in {"SPIKE", "HALF_SPIKE"}
      h == IF inset THEN TILE_SIZE - 28 ELSE TILE_SIZE
      off == IF Rotation(obj) = 180 THEN TILE_SIZE - (top + h) ELSE top
  IN  [ x |-> IF inset THEN ObjX(obj) + 14 * Fx ELSE ObjX(obj),
        y |-> ObjY(obj) + off,
        w |-> IF inset THEN (TILE_SIZE - 28) * Fx ELSE TILE_SIZE * Fx,
        h |-> h ]

\* hitbox of a spike, half spike or full tile
HitBox(obj) ==
  IF obj.type = "SPIKE"
    THEN [ x |-> ObjX(obj) + 14 * Fx, y |-> ObjY(obj) + 14,
           w |-> (TILE_SIZE - 28) * Fx, h |-> TILE_SIZE - 28 ]
  ELSE IF obj.type = "HALF_SPIKE"
    THEN [ x |-> ObjX(obj) + 14 * Fx, y |-> ObjY(obj) + 28,
           w |-> (TILE_SIZE - 28) * Fx, h |-> TILE_SIZE - 28 ]
  ELSE [ x |-> ObjX(obj), y |-> ObjY(obj), w |-> TILE_SIZE * Fx, h |-> TILE_SIZE ]

\* the vertical strip of a portal
PortalRect(obj) ==
  [ x |-> ObjX(obj) + 15 * Fx,
    y |-> ObjY(obj) - (PORTAL_HEIGHT_BLOCKS - 1) * TILE_SIZE,
    w |-> 18 * Fx,
    h |-> PORTAL_HEIGHT_BLOCKS * TILE_SIZE ]

\* dist < orbRadius between the player's centre and the orb's centre
\* (dx in tenths, dy in pixels; both sides squared)
InOrbRadius(p, obj) ==
  LET dx == (p.position.x + (TILE_SIZE \div 2) * Fx) - (ObjX(obj) + (TILE_SIZE \div 2) * Fx)
      dy == (p.position.y - TILE_SIZE \div 2) - (ObjY(obj) + TILE_SIZE \div 2)
  IN  dx * dx + (dy * dy) * (Fx * Fx) < (orbRadius * orbRadius) * (Fx * Fx)

\* ------------------------------------------------------- time and recording
\* timeRef.current % 0.1 < 0.05 after n additions of 0.05 in IEEE-754 double
\* arithmetic (n up to 2000): the running sum drifts across the 0.05 boundary,
\* so the sampled ticks are the even ones up to 4, the odd ones from 5 to 13,
\* the even ones from 14 to 44, the odd ones from 45 to 190, the even ones
\* from 192 to 750 and the odd ones from 753 on.
RecordNow(n) ==
  LET evenPhase == n <= 4 \/ (14 <= n /\ n <= 44) \/ (191 <= n /\ n <= 751)
  IN  IF evenPhase THEN n % 2 = 0 ELSE n % 2 = 1

\* ------------------------------------------------------------ host reports
NoPos == << >>

\* if (isTestMode && onTestComplete) onTestComplete(trail, player.position)
\* else onDie()
ReportDeath(cs, trail, pos) ==
  IF isTestMode /\ onTestComplete
    THEN Append(cs, [fn |-> "onTestComplete", trail |-> trail, deathPos |-> << pos >>])
    ELSE Append(cs, [fn |-> "onDie", trail |-> << >>, deathPos |-> NoPos])

\* if (isTestMode && onTestComplete) onTestComplete(trail, null) else onWin()
ReportFinish(cs, trail) ==
  IF isTestMode /\ onTestComplete
    THEN Append(cs, [fn |-> "onTestComplete", trail |-> trail, deathPos |-> NoPos])
    ELSE Append(cs, [fn |-> "onWin", trail |-> << >>, deathPos |-> NoPos])

\* the run's record of presses and orb activations: credit counts the press
\* transitions (jump going from false to true) since the last orb activation,
\* up to MaxCredit; orbs counts the orb activations of the run
NoOrbLog == [credit |-> 0, orbs |-> 0]

\* a press event: a press transition iff jump was false
PressLogged(log, inp) ==
  IF ~inp.jump /\ log.credit < MaxCredit THEN [log EXCEPT !.credit = @ + 1] ELSE log

\* a tick on which n orbs were activated
OrbsLogged(log, n) ==
  IF n = 0 THEN log ELSE [credit |-> 0, orbs |-> log.orbs + n]

\* ------------------------------------------------- ground / stability check
\* some BLOCK under (over, when inverted) the player's centre within 5px
BlockSupport(p, gravityMult, level) ==
  LET pX == p.position.x + (TILE_SIZE \div 2) * Fx
  IN  \E i \in 1..Len(level.objects) :
        LET obj == level.objects[i]
            oX == ObjX(obj)
            oY == ObjY(obj)
        IN  /\ obj.type = "BLOCK"
            /\ pX > oX
            /\ pX < oX + TILE_SIZE * Fx
            /\ IF gravityMult = 1
                 THEN Abs(p.position.y - oY) < 5
                 ELSE Abs(p.position.y - (oY + 2 * TILE_SIZE)) < 5

PlaneSupport(p, gravityMult, level) ==
  IF gravityMult = 1
    THEN p.position.y >= 0
    ELSE /\ level.gameMode # "FREE"
         /\ p.position.y <= -(CEILING_HEIGHT * TILE_SIZE) + TILE_SIZE + 2

StabilityCheck(p, jump, gravityMult, level) ==
  IF p.isGrounded /\ ~jump
       /\ ~PlaneSupport(p, gravityMult, level)
       /\ ~BlockSupport(p, gravityMult, level)
    THEN [p EXCEPT !.isGrounded = FALSE]
    ELSE p

\* ------------------------------------------------------------ physics update
Gravitate(p, gravityMult) ==
  IF ~p.isGrounded
    THEN [p EXCEPT !.velocity.y = @ + GRAVITY * gravityMult]
    ELSE [p EXCEPT !.velocity.y = 0]

\* player.velocity.x = MOVE_SPEED * player.speedMultiplier
ApplySpeed(p) == [p EXCEPT !.velocity.x = MOVE_SPEED * p.speedMultiplier]

\* a ground jump that leaves the orb lock available
JumpKeepsLock(p, jump, gravityMult) ==
  IF jump /\ p.isGrounded
    THEN [p EXCEPT !.velocity.y = JUMP_FORCE * gravityMult, !.isGrounded = FALSE]
    ELSE p

Jump(p, jump, gravityMult) ==
  IF jump /\ p.isGrounded
    THEN [p EXCEPT !.velocity.y = JUMP_FORCE * gravityMult,
                   !.isGrounded = FALSE,
                   !.canOrbJump = FALSE]
    ELSE p

ClampVelocityNormalOnly(p, gravityMult) ==
  IF gravityMult = 1 /\ p.velocity.y > TERMINAL_VELOCITY
    THEN [p EXCEPT !.velocity.y = TERMINAL_VELOCITY] ELSE p

ClampVelocity(p, gravityMult) ==
  IF gravityMult = 1
    THEN IF p.velocity.y > TERMINAL_VELOCITY
           THEN [p EXCEPT !.velocity.y = TERMINAL_VELOCITY] ELSE p
    ELSE IF p.velocity.y < -TERMINAL_VELOCITY
           THEN [p EXCEPT !.velocity.y = -TERMINAL_VELOCITY] ELSE p

\* an advance by half the velocity
AdvanceXHalf(p) == [p EXCEPT !.position.x = @ + p.velocity.x \div 2]

AdvanceX(p) == [p EXCEPT !.position.x = @ + p.velocity.x]

\* const prevY = player.position.y - player.velocity.y, taken BEFORE
\* player.position.y += player.velocity.y
PrevY(p) == p.position.y - p.velocity.y

AdvanceY(p) == [p EXCEPT !.position.y = @ + p.velocity.y]

\* the player as it enters collision detection, before the vertical advance
Integrate(p, jump, gravityMult, level) ==
  AdvanceX(ClampVelocity(Jump(ApplySpeed(Gravitate(
    StabilityCheck(p, jump, gravityMult, level), gravityMult)), jump, gravityMult),
    gravityMult))

\* ------------------------------------------------------ collision detection
\* The loop over currentLevel.objects works on an accumulator a:
\*   p        the player,            jpf     inputRef.jumpPressedThisFrame,
\*   calls    the callbacks invoked, returned TRUE once update has returned,
\*   near, orbs, flips, hits, killer, oob, won   the observation for ev
\* and reads a context c fixed before the loop:
\*   gravityMult, jump, prevY, pos (player position after the advance, from
\*   which pRect, pCenterX and pCenterY are taken), trail, level.

\* every orb turns gravity over
OrbImpulseFlipsAll(p, type, gravityMult) ==
  [p EXCEPT !.gravityScale = -@,
            !.velocity.y = (JUMP_FORCE \div 2) * (-p.gravityScale),
            !.isGrounded = FALSE]

OrbImpulse(p, type, gravityMult) ==
  IF type = "ORB_JUMP"
    THEN [p EXCEPT !.velocity.y = ORB_JUMP_FORCE * gravityMult, !.isGrounded = FALSE]
  ELSE IF type = "ORB_JUMP_PURPLE"
    THEN [p EXCEPT !.velocity.y = ORB_JUMP_PURPLE_FORCE * gravityMult, !.isGrounded = FALSE]
  ELSE IF type = "ORB_JUMP_RED"
    THEN [p EXCEPT !.velocity.y = ORB_JUMP_RED_FORCE * gravityMult, !.isGrounded = FALSE]
  ELSE \* ORB_GRAVITY: flip, then JUMP_FORCE * 0.5 * the new gravityScale
       [p EXCEPT !.gravityScale = -@,
                 !.velocity.y = (JUMP_FORCE \div 2) * (-p.gravityScale),
                 !.isGrounded = FALSE]

\* a gate that lets a held jump through whatever the orb lock
OrbGateNoLock(jpf, jump, canOrbJump) == jpf \/ jump

\* isJumpInputActive && canOrbJump
OrbGate(jpf, jump, canOrbJump) == (jpf \/ (jump /\ canOrbJump)) /\ canOrbJump

\* an activation that leaves the orb lock available
OrbActivateKeepsLock(p, type, gravityMult) == OrbImpulse(p, type, gravityMult)

\* what activating an orb does to the player: consume the lock, then the impulse
OrbActivate(p, type, gravityMult) ==
  OrbImpulse([p EXCEPT !.canOrbJump = FALSE], type, gravityMult)

\* an orb step that fires on every tick on which jump is held within the radius
OrbStepWhileHeld(obj, i, a, c) ==
  IF InOrbRadius([position |-> c.pos], obj) /\ c.jump
    THEN [a EXCEPT !.p = OrbActivate(a.p, obj.type, c.gravityMult),
                   !.jpf = FALSE,
                   !.near = Append(@, [i |-> i, lock |-> a.p.canOrbJump]),
                   !.orbs = Append(@, i)]
    ELSE a

OrbStep(obj, i, a, c) ==
  IF InOrbRadius([position |-> c.pos], obj)
    THEN LET seen == [a EXCEPT !.near = Append(@, [i |-> i, lock |-> a.p.canOrbJump])]
         IN  IF OrbGate(a.jpf, c.jump, a.p.canOrbJump)
               THEN [seen EXCEPT !.p = OrbActivate(a.p, obj.type, c.gravityMult),
                                 !.jpf = FALSE,
                                 !.orbs = Append(@, i)]
               ELSE seen
    ELSE a

\* speed portals that change the multiplier by a step instead of setting it
SpeedOfStep(type, old) ==
  IF type = "PORTAL_SPEED_SLOW" THEN old - 2
  ELSE IF type = "PORTAL_SPEED_NORMAL" THEN 10
  ELSE IF type = "PORTAL_SPEED_FAST" THEN old + 2
  ELSE IF type = "PORTAL_SPEED_VERY_FAST" THEN old + 4
  ELSE old

SpeedOf(type, old) ==
  IF type = "PORTAL_SPEED_SLOW" THEN 8
  ELSE IF type = "PORTAL_SPEED_NORMAL" THEN 10
  ELSE IF type = "PORTAL_SPEED_FAST" THEN 12
  ELSE IF type = "PORTAL_SPEED_VERY_FAST" THEN 14
  ELSE old

\* no cooldown at all
PortalCooldownNone(p) == TRUE

\* Math.abs(player.position.x - lastPortalX) > TILE_SIZE * 2
PortalCooldownOver(p) ==
  Abs(p.position.x - LastPortalX(p)) > (TILE_SIZE * 2) * Fx

PortalStep(obj, i, a, c) ==
  IF checkCollision(PRect([position |-> c.pos]), PortalRect(obj))
    THEN IF obj.type = "PORTAL_GRAVITY"
           THEN IF PortalCooldownOver(a.p)
                  THEN [a EXCEPT !.p = [a.p EXCEPT !.gravityScale = -@,
                                                   !.lastPortalX = a.p.position.x],
                                 !.flips = Append(@, i)]
                  ELSE a
           ELSE [a EXCEPT !.p.speedMultiplier = SpeedOf(obj.type, @)]
    ELSE a

\* a death that does not leave the object loop
DieWithoutReturn(a, i, c) ==
  [a EXCEPT !.p.isDead = TRUE,
            !.calls = ReportDeath(@, c.trail, a.p.position),
            !.killer = i]

\* player.isDead = true; report; return
Die(a, i, c) ==
  [a EXCEPT !.p.isDead = TRUE,
            !.calls = ReportDeath(@, c.trail, a.p.position),
            !.returned = TRUE,
            !.killer = i]

\* a landing condition whose previous-position test allows no overshoot at all
CanLandNoTolerance(gravityMult, vy, prevY, objY) ==
  IF gravityMult = 1
    THEN vy >= 0 /\ prevY <= objY - 15
    ELSE vy <= 0 /\ (prevY - TILE_SIZE) >= (objY + TILE_SIZE) + 15

\* the landing condition of a BLOCK overlap, per gravity sign
CanLand(gravityMult, vy, prevY, objY) ==
  IF gravityMult = 1
    THEN vy >= 0 /\ prevY <= objY + 15
    ELSE vy <= 0 /\ (prevY - TILE_SIZE) >= (objY + TILE_SIZE) - 15

\* where a landing puts the player: on the block, or under it when inverted
LandY(gravityMult, objY) ==
  IF gravityMult = 1 THEN objY ELSE (objY + TILE_SIZE) + TILE_SIZE

\* a landing that keeps the vertical velocity
BlockStepKeepsVelocity(obj, i, a, c) ==
  LET vy == a.p.velocity.y
      ok == CanLand(c.gravityMult, vy, c.prevY, ObjY(obj))
      seen == [a EXCEPT !.hits = Append(@, [i |-> i, vy |-> vy, landed |-> ok])]
  IN  IF ok
        THEN [seen EXCEPT !.p = [a.p EXCEPT !.position.y = LandY(c.gravityMult, ObjY(obj)),
                                            !.isGrounded = TRUE]]
        ELSE Die(seen, i, c)

BlockStep(obj, i, a, c) ==
  LET vy == a.p.velocity.y
      ok == CanLand(c.gravityMult, vy, c.prevY, ObjY(obj))
      seen == [a EXCEPT !.hits = Append(@, [i |-> i, vy |-> vy, landed |-> ok])]
  IN  IF ok
        THEN [seen EXCEPT !.p = [a.p EXCEPT !.position.y = LandY(c.gravityMult, ObjY(obj)),
                                            !.velocity.y = 0,
                                            !.isGrounded = TRUE]]
        ELSE Die(seen, i, c)

SolidStep(obj, i, a, c) ==
  IF checkCollision(PRect([position |-> c.pos]), HitBox(obj))
    THEN IF obj.type \in {"SPIKE", "HALF_SPIKE"} THEN Die(a, i, c)
         ELSE IF obj.type = "BLOCK" THEN BlockStep(obj, i, a, c)
         ELSE a
    ELSE a

ObjStep(obj, i, a, c) ==
  IF IsOrb(obj.type) THEN OrbStep(obj, i, a, c)
  ELSE IF IsPortal(obj.type) THEN PortalStep(obj, i, a, c)
  ELSE SolidStep(obj, i, a, c)

RECURSIVE ObjLoop(_, _, _)
ObjLoop(i, a, c) ==
  IF i > Len(c.level.objects) \/ a.returned
    THEN a
    ELSE ObjLoop(i + 1, ObjStep(c.level.objects[i], i, a, c), c)

\* ----------------------------------------------------- floor / ceiling logic
\* a band whose upper edge is far higher than the code's
OutOfBoundsWide(y) == y < -30000 \/ y > 1000

\* player.position.y < -3000 || player.position.y > 1000
OutOfBounds(y) == y < -3000 \/ y > 1000

\* floor / ceiling logic that knows the floor only
FloorCeilingFloorOnly(a, c) ==
  IF ~a.p.isDead /\ c.gravityMult = 1 /\ a.p.position.y >= 0
    THEN [a EXCEPT !.p = [a.p EXCEPT !.position.y = 0, !.velocity.y = 0,
                                     !.isGrounded = TRUE]]
    ELSE a

\* floor / ceiling logic that reads the gravity sign the player has by then
FloorCeilingCurrentSign(a, c) ==
  LET y == a.p.position.y
      ceilY == -(CEILING_HEIGHT * TILE_SIZE)
      rest == [a.p EXCEPT !.velocity.y = 0, !.isGrounded = TRUE]
  IN  IF a.p.isDead THEN a
      ELSE IF a.p.gravityScale = 1
        THEN IF y >= 0 THEN [a EXCEPT !.p = [rest EXCEPT !.position.y = 0]] ELSE a
      ELSE IF c.level.gameMode = "FREE"
        THEN IF OutOfBounds(y)
               THEN [a EXCEPT !.p.isDead = TRUE,
                              !.calls = ReportDeath(@, c.trail, a.p.position),
                              !.oob = TRUE]
               ELSE a
      ELSE IF y - TILE_SIZE <= ceilY
        THEN [a EXCEPT !.p = [rest EXCEPT !.position.y = ceilY + TILE_SIZE]]
      ELSE a

FloorCeiling(a, c) ==
  LET y == a.p.position.y
      ceilY == -(CEILING_HEIGHT * TILE_SIZE)
      rest == [a.p EXCEPT !.velocity.y = 0, !.isGrounded = TRUE]
  IN  IF a.p.isDead THEN a
      ELSE IF c.gravityMult = 1
        THEN IF y >= 0 THEN [a EXCEPT !.p = [rest EXCEPT !.position.y = 0]] ELSE a
      ELSE IF c.level.gameMode = "FREE"
        THEN IF OutOfBounds(y)
               THEN [a EXCEPT !.p.isDead = TRUE,
                              !.calls = ReportDeath(@, c.trail, a.p.position),
                              !.oob = TRUE]
               ELSE a
      ELSE IF y - TILE_SIZE <= ceilY
        THEN [a EXCEPT !.p = [rest EXCEPT !.position.y = ceilY + TILE_SIZE]]
        ELSE a

\* a finish line that exists only on levels of positive length
PastFinishPositive(p, level) ==
  level.length > 0 /\ p.position.x > (level.length * TILE_SIZE) * Fx

\* if (!isProcedural && player.position.x > currentLevel.length * TILE_SIZE)
PastFinish(p, level) == p.position.x > (level.length * TILE_SIZE) * Fx

\* a win check that does not look at isProcedural
WinCheckAnyRun(a, c) ==
  IF PastFinish(a.p, c.level)
    THEN [a EXCEPT !.calls = ReportFinish(@, c.trail), !.won = TRUE]
    ELSE a

WinCheck(a, c) ==
  IF ~isProcedural /\ PastFinish(a.p, c.level)
    THEN [a EXCEPT !.calls = ReportFinish(@, c.trail), !.won = TRUE]
    ELSE a

\* inputRef.current.jumpPressedThisFrame = false (after the floor/ceiling logic)
ClearPressed(a) == [a EXCEPT !.jpf = FALSE]

\* -------------------------------------------------------------------- update
NoEv ==
  [ dead0 |-> FALSE, gravityMult |-> 1, jump |-> FALSE, yBefore |-> 0, vy |-> 0,
    near |-> << >>, orbs |-> << >>, flips |-> << >>, hits |-> << >>,
    killer |-> 0, oob |-> FALSE, won |-> FALSE ]

\* the trail after this tick's sample (taken at the start of the tick)
Record(trail, p, n) ==
  IF isTestMode /\ ~p.isDead /\ RecordNow(n)
    THEN Append(trail, p.position)
    ELSE trail

\* update() on a living player: the whole tick after the isDead guard
LiveTick(p, inp, trail, cs, n, level) ==
  LET gravityMult == p.gravityScale
      trail1 == Record(trail, p, n)
      p1 == Integrate(p, inp.jump, gravityMult, level)
      p2 == AdvanceY(p1)
      c == [ gravityMult |-> gravityMult, jump |-> inp.jump, prevY |-> PrevY(p1),
             pos |-> p2.position, trail |-> trail1, level |-> level ]
      a0 == [ p |-> p2, jpf |-> inp.jumpPressedThisFrame, calls |-> cs,
              returned |-> FALSE, near |-> << >>, orbs |-> << >>, flips |-> << >>,
              hits |-> << >>, killer |-> 0, oob |-> FALSE, won |-> FALSE ]
      a1 == ObjLoop(1, a0, c)
      a2 == IF a1.returned THEN a1 ELSE WinCheck(ClearPressed(FloorCeiling(a1, c)), c)
  IN  [ p |-> a2.p, jpf |-> a2.jpf, trail |-> trail1, calls |-> a2.calls,
        ev |-> [ dead0 |-> FALSE, gravityMult |-> gravityMult, jump |-> inp.jump,
                 yBefore |-> p1.position.y, vy |-> p1.velocity.y,
                 near |-> a2.near, orbs |-> a2.orbs, flips |-> a2.flips,
                 hits |-> a2.hits, killer |-> a2.killer, oob |-> a2.oob,
                 won |-> a2.won ] ]

\* update() without its isDead guard: a dead player is simulated on
DeadTickFallsThrough(p, inp, trail, cs, n, level) ==
  LiveTick(p, inp, trail, cs, n, level)

\* if (player.isDead) { spawnParticles(...); return; }
DeadTick(p, inp, trail, cs, n, level) ==
  [ p |-> p, jpf |-> inp.jumpPressedThisFrame, trail |-> trail, calls |-> cs,
    ev |-> [NoEv EXCEPT !.dead0 = TRUE, !.gravityMult = p.gravityScale,
                        !.jump = inp.jump, !.yBefore = p.position.y] ]

\* One call of update() on player p, latch inp, trail and calls, as the n-th
\* tick.  The result carries the new player, jumpPressedThisFrame, trail,
\* calls and the observation of the tick.
update(p, inp, trail, cs, n, level) ==
  IF p.isDead
    THEN DeadTick(p, inp, trail, cs, n, level)
    ELSE LiveTick(p, inp, trail, cs, n, level)

\* ---------------------------------------------------------------- scenarios
\* A run is a LevelData with the props GameRunner is mounted with.
Run(level, proc, test, cb) ==
  [ level |-> level, isProcedural |-> proc, isTestMode |-> test, onTestComplete |-> cb ]

\* the default level at the length of the win-threshold property
LevelDefault50 == Level(DEFAULT_OBJECTS, 50, "CLASSIC")

\* a red orb on the jump arc, then blocks to fall onto from up to 300px
LevelOrbs ==
  Level(<< Obj("ORB_JUMP_RED", 4, 3), Obj("BLOCK", 10, 1), Obj("BLOCK", 11, 1),
           Obj("BLOCK", 12, 2), Obj("ORB_JUMP", 14, 4), Obj("SPIKE", 16, 1) >>,
        18, "CLASSIC")

\* a jump orb right above a block and listed before it, then a gravity orb
LevelOrbOnBlock ==
  Level(<< Obj("ORB_JUMP", 6, 2), Obj("BLOCK", 6, 1), Obj("ORB_GRAVITY", 12, 3) >>,
        16, "CLASSIC")

\* two hazards, two portals and an orb on one tile, hazards listed first
LevelHazards ==
  Level(<< Obj("SPIKE", 4, 1), Obj("HALF_SPIKE", 4, 1), Obj("PORTAL_GRAVITY", 4, 1),
           Obj("PORTAL_SPEED_FAST", 4, 1), Obj("ORB_JUMP", 4, 1) >>,
        8, "CLASSIC")

\* three orbs of different kinds on neighbouring tiles at floor level and one
\* tile up: a player between them is within the radius of several at once
LevelTwoOrbs ==
  Level(<< Obj("ORB_JUMP", 4, 1), Obj("ORB_GRAVITY", 5, 1), Obj("ORB_JUMP_PURPLE", 5, 2) >>,
        8, "CLASSIC")

\* gravity portals in pairs one tile apart, a pair on the floor and a pair
\* under the ceiling
LevelPortals ==
  Level(<< Obj("PORTAL_GRAVITY", 2, 1), Obj("PORTAL_GRAVITY", 3, 1),
           Obj("PORTAL_GRAVITY", 12, 12), Obj("PORTAL_GRAVITY", 13, 12) >>,
        20, "CLASSIC")

\* speed portals of the four kinds, the first two in one column
LevelSpeed ==
  Level(<< Obj("PORTAL_SPEED_FAST", 2, 1), Obj("PORTAL_SPEED_SLOW", 2, 2),
           Obj("PORTAL_SPEED_VERY_FAST", 6, 1), Obj("PORTAL_SPEED_NORMAL", 9, 1) >>,
        12, "CLASSIC")

\* a slow portal on the first tile: the whole run is made at speed 0.8
LevelSlow == Level(<< Obj("PORTAL_SPEED_SLOW", 0, 1) >>, 2, "CLASSIC")

\* FREE mode: a gravity portal near the start sends the player upward for good
LevelFreeUp == Level(<< Obj("PORTAL_GRAVITY", 1, 1) >>, 19, "FREE")

\* FREE mode: a second gravity portal 61 rows up turns gravity back to normal
\* while the player is still rising
LevelFreeHigh ==
  Level(<< Obj("PORTAL_GRAVITY", 1, 1), Obj("PORTAL_GRAVITY", 19, 61) >>, 40, "FREE")

\* a gravity portal listed before a jump orb in the same cell, far enough
\* from the start for a jump to come down inside the portal
LevelFlipThenOrb ==
  Level(<< Obj("PORTAL_GRAVITY", 6, 1), Obj("ORB_JUMP", 6, 1) >>, 8, "CLASSIC")

\* degenerate levels: no objects in either game mode, a length of zero, a
\* negative length, and a length of zero with a spike on the starting tile
LevelEmpty == Level(<< >>, 3, "CLASSIC")

LevelEmptyFree == Level(<< >>, 3, "FREE")

LevelZero == Level(<< Obj("BLOCK", 3, 1) >>, 0, "CLASSIC")

LevelNegative == Level(<< >>, -1, "FREE")

LevelZeroSpike == Level(<< Obj("SPIKE", 0, 1) >>, 0, "CLASSIC")

\* a short level for recorded runs: a block to land on or hit, then a spike
LevelShort == Level(<< Obj("BLOCK", 2, 1), Obj("SPIKE", 4, 1) >>, 6, "CLASSIC")

\* one output of generateProceduralSegment(0, 1000): a block jump at 15, a
\* spike at 19, a gravity portal trap at 22, then (gravity inverted, so placed
\* against the ceiling and spikes turned) a spike at 32 and a block jump at 35
ProceduralObjects ==
  << Obj("BLOCK", 15, 1), Obj("SPIKE", 19, 1), Obj("BLOCK", 22, 1),
     Obj("PORTAL_GRAVITY", 22, 2), Obj("SPIKE", 32, 12), Obj("BLOCK", 35, 12) >>

LevelProcedural == Level(ProceduralObjects, ProceduralLength, "CLASSIC")

\* the runs of a GameRunner mounted on its own: they report through onDie and
\* onWin, which do nothing outside PLAYING (App's handleDie and handleWin)
Runs ==
  { Run(LevelDefault50, FALSE, FALSE, FALSE),
    Run(LevelOrbs, FALSE, FALSE, FALSE),
    Run(LevelOrbOnBlock, FALSE, FALSE, FALSE),
    Run(LevelHazards, FALSE, FALSE, FALSE),
    Run(LevelTwoOrbs, FALSE, FALSE, FALSE),
    Run(LevelPortals, FALSE, FALSE, FALSE),
    Run(LevelSpeed, FALSE, FALSE, FALSE),
    Run(LevelSlow, FALSE, FALSE, FALSE),
    Run(LevelFreeUp, FALSE, FALSE, FALSE),
    Run(LevelFreeHigh, FALSE, FALSE, FALSE),
    Run(LevelFlipThenOrb, FALSE, FALSE, FALSE),
    Run(LevelEmpty, FALSE, FALSE, FALSE),
    Run(LevelEmptyFree, FALSE, FALSE, FALSE),
    Run(LevelZero, FALSE, FALSE, FALSE),
    Run(LevelNegative, FALSE, FALSE, FALSE),
    Run(LevelZeroSpike, FALSE, FALSE, FALSE),
    Run(LevelShort, FALSE, TRUE, FALSE),
    Run(LevelProcedural, TRUE, FALSE, FALSE) }

\* the levels the editor holds when a test run is started
EditorLevels == { LevelFreeUp, LevelShort }

\* ------------------------------------------------------- frames and audio
\* requestAnimationFrame(loop)
RequestFrame(n) == n + 1

\* a cleanup whose cancelAnimationFrame misses the pending callback
CancelFrameMissed(ref, n) == n

\* if (requestRef.current) cancelAnimationFrame(requestRef.current)
CancelFrame(ref, n) == IF ref THEN n - 1 ELSE n

\* musicSrc of the run reset effect
MusicSrc(level, proc) == IF proc THEN "MUSIC_PROCEDURAL" ELSE level.musicUrl

\* if (musicSrc && isActive) { audioRef.current = new Audio(musicSrc); ... play() }
PlayAudio(level, proc, n) == IF MusicSrc(level, proc) # "" THEN n + 1 ELSE n

\* if (audioRef.current) { audioRef.current.pause(); audioRef.current = null }
PauseAudio(ref, n) == IF ref THEN n - 1 ELSE n

\* ---------------------------------------------------------------- run reset
\* The state of a freshly mounted GameRunner: the refs as constructed and as
\* the run-reset effect leaves them, with the loop effect's first frame
\* requested.
\* a run start that keeps the player and the trail of the run before
MountKeepsPlayer(level, proc, test, cb) ==
  /\ currentLevel' = level
  /\ isProcedural' = proc
  /\ isTestMode' = test
  /\ onTestComplete' = cb
  /\ inputRef' = [jump |-> FALSE, jumpPressedThisFrame |-> FALSE]
  /\ timeRef' = 0
  /\ calls' = << >>
  /\ requestRef' = TRUE
  /\ frames' = frames + 1 - (IF requestRef THEN 1 ELSE 0)
  /\ audioRef' = TRUE
  /\ audio' = 1
  /\ afterTicks' = 0
  /\ heldOrbs' = 0
  /\ lastFlipX' = -1
  /\ orbLog' = NoOrbLog
  /\ ev' = ev
  /\ UNCHANGED << player, recordedTrail, down >>

Mount(level, proc, test, cb) ==
  /\ currentLevel' = level
  /\ isProcedural' = proc
  /\ isTestMode' = test
  /\ onTestComplete' = cb
  /\ player' = InitialPlayer
  /\ inputRef' = [jump |-> FALSE, jumpPressedThisFrame |-> FALSE]
  /\ timeRef' = 0
  /\ recordedTrail' = << >>
  /\ calls' = << >>
  /\ requestRef' = TRUE
  /\ frames' = RequestFrame(CancelFrame(requestRef, frames))
  /\ audioRef' = (MusicSrc(level, proc) # "")
  /\ audio' = PlayAudio(level, proc, PauseAudio(audioRef, audio))
  /\ afterTicks' = 0
  /\ heldOrbs' = 0
  /\ lastFlipX' = -1
  /\ orbLog' = NoOrbLog
  /\ ev' = NoEv
  /\ UNCHANGED down

\* no GameRunner is mounted: its refs are gone
Discard ==
  /\ player' = InitialPlayer
  /\ inputRef' = [jump |-> FALSE, jumpPressedThisFrame |-> FALSE]
  /\ timeRef' = 0
  /\ recordedTrail' = << >>
  /\ calls' = << >>
  /\ requestRef' = FALSE
  /\ frames' = CancelFrame(requestRef, frames)
  /\ audioRef' = FALSE
  /\ audio' = PauseAudio(audioRef, audio)
  /\ afterTicks' = 0
  /\ heldOrbs' = 0
  /\ lastFlipX' = -1
  /\ orbLog' = NoOrbLog
  /\ ev' = NoEv
  /\ UNCHANGED << props, down >>

\* --------------------------------------------------------------------- Init
\* GameRunner mounted on its own with one of Runs; no App around it
Init ==
  /\ \E r \in Runs :
        /\ currentLevel = r.level
        /\ levelData = r.level
        /\ key = 0
        /\ isProcedural = r.isProcedural
        /\ isTestMode = r.isTestMode
        /\ onTestComplete = r.onTestComplete
  /\ gameState = "NONE"
  /\ player = InitialPlayer
  /\ inputRef = [jump |-> FALSE, jumpPressedThisFrame |-> FALSE]
  /\ timeRef = 0
  /\ recordedTrail = << >>
  /\ calls = << >>
  /\ requestRef = TRUE
  /\ frames = RequestFrame(0)
  /\ audioRef = (MusicSrc(currentLevel, isProcedural) # "")
  /\ audio = PlayAudio(currentLevel, isProcedural, 0)
  /\ afterTicks = 0
  /\ heldOrbs = 0
  /\ lastFlipX = -1
  /\ orbLog = NoOrbLog
  /\ down = {}
  /\ ev = NoEv

\* the App at its menu, the editor holding one of EditorLevels
InitApp ==
  /\ gameState = "MENU"
  /\ levelData \in EditorLevels
  /\ key = 0
  /\ currentLevel = levelData
  /\ isProcedural = FALSE
  /\ isTestMode = FALSE
  /\ onTestComplete = TRUE
  /\ player = InitialPlayer
  /\ inputRef = [jump |-> FALSE, jumpPressedThisFrame |-> FALSE]
  /\ timeRef = 0
  /\ recordedTrail = << >>
  /\ calls = << >>
  /\ requestRef = FALSE
  /\ frames = 0
  /\ audioRef = FALSE
  /\ audio = 0
  /\ afterTicks = 0
  /\ heldOrbs = 0
  /\ lastFlipX = -1
  /\ orbLog = NoOrbLog
  /\ down = {}
  /\ ev = NoEv

\* ------------------------------------------------------------------ actions
\* one animation frame of a mounted GameRunner: update(); draw();
\* requestAnimationFrame(loop)
Frame ==
  /\ frames > 0
  /\ timeRef < MaxTicks \/ (FarTick <= timeRef /\ timeRef < FarTick + MaxFarTicks)
  /\ afterTicks < MaxAfter
  /\ LET r == update(player, inputRef, recordedTrail, calls, timeRef + 1, currentLevel)
     IN  /\ timeRef' = timeRef + 1
         /\ player' = r.p
         /\ inputRef' = [inputRef EXCEPT !.jumpPressedThisFrame = r.jpf]
         /\ recordedTrail' = r.trail
         /\ calls' = r.calls
         /\ ev' = r.ev
         /\ heldOrbs' = heldOrbs + Len(r.ev.orbs)
         /\ lastFlipX' = IF r.ev.flips # << >> THEN r.p.position.x ELSE lastFlipX
         /\ orbLog' = OrbsLogged(orbLog, Len(r.ev.orbs))
  /\ afterTicks' = IF calls # << >> THEN afterTicks + 1 ELSE afterTicks
  /\ UNCHANGED << props, down >>

\* a frame of a GameRunner whose host does nothing in its callbacks
loop ==
  /\ Frame
  /\ requestRef' = TRUE
  /\ frames' = RequestFrame(frames - 1)
  /\ UNCHANGED << audioRef, audio, hostVars >>

\* a press that latches the fresh press without the held state
PressBuffersOnly(inp) == [inp EXCEPT !.jumpPressedThisFrame = TRUE]

\* press: if (!jump) jumpPressedThisFrame = true; jump = true
Press(inp) ==
  [ jump |-> TRUE,
    jumpPressedThisFrame |-> IF ~inp.jump THEN TRUE ELSE inp.jumpPressedThisFrame ]

\* a release that leaves a buffered press in place
ReleaseKeepsPressed(inp) == [inp EXCEPT !.jump = FALSE]

\* release: jump = false; jumpPressedThisFrame = false; canOrbJump = true
Release(inp) == [ jump |-> FALSE, jumpPressedThisFrame |-> FALSE ]

\* what the keydown and the mousedown / touchstart listeners do to the refs
OnPress ==
  /\ requestRef
  /\ inputRef' = Press(inputRef)
  /\ orbLog' = PressLogged(orbLog, inputRef)
  /\ UNCHANGED << props, hostVars, resources, player, timeRef, recordedTrail, calls,
                  requestRef, afterTicks, heldOrbs, lastFlipX, ev >>

\* what the keyup and the mouseup / touchend listeners do to the refs
OnRelease ==
  /\ requestRef
  /\ inputRef' = Release(inputRef)
  /\ player' = [player EXCEPT !.canOrbJump = TRUE]
  /\ heldOrbs' = 0
  /\ UNCHANGED << props, hostVars, resources, timeRef, recordedTrail, calls,
                  requestRef, afterTicks, lastFlipX, orbLog, ev >>

handleKeyDown == OnPress /\ UNCHANGED down

handleKeyUp == OnRelease /\ UNCHANGED down

handleMouseDown == OnPress /\ UNCHANGED down

handleMouseUp == OnRelease /\ UNCHANGED down

\* the effects' cleanups: cancelAnimationFrame(requestRef.current), the audio
\* paused and cleared, the input listeners removed
unmount ==
  /\ requestRef
  /\ requestRef' = FALSE
  /\ frames' = CancelFrame(requestRef, frames)
  /\ audioRef' = FALSE
  /\ audio' = PauseAudio(audioRef, audio)
  /\ UNCHANGED << props, hostVars, player, inputRef, timeRef, recordedTrail, calls,
                  afterTicks, heldOrbs, lastFlipX, orbLog, down, ev >>

Next ==
  \/ loop
  \/ handleKeyDown
  \/ handleKeyUp
  \/ handleMouseDown
  \/ handleMouseUp
  \/ unmount

Spec == Init /\ [][Next]_vars

\* a procedural run picked up at tick FarTick: having passed the objects of
\* the generated segment (the gravity portal at tile 22 included) the player
\* has been running under the ceiling at speed 1.0 ever since
FarPlayer ==
  [InitialPlayer EXCEPT !.position = [x |-> FarTick * (MOVE_SPEED * Fx),
                                      y |-> -((CEILING_HEIGHT - 1) * TILE_SIZE)],
                        !.gravityScale = -1,
                        !.lastPortalX = 10350]

InitFar ==
  /\ currentLevel = LevelProcedural
  /\ levelData = LevelProcedural
  /\ key = 0
  /\ isProcedural = TRUE
  /\ isTestMode = FALSE
  /\ onTestComplete = FALSE
  /\ gameState = "NONE"
  /\ player = FarPlayer
  /\ inputRef = [jump |-> FALSE, jumpPressedThisFrame |-> FALSE]
  /\ timeRef = FarTick
  /\ recordedTrail = << >>
  /\ calls = << >>
  /\ requestRef = TRUE
  /\ frames = RequestFrame(0)
  /\ audioRef = (MusicSrc(currentLevel, isProcedural) # "")
  /\ audio = PlayAudio(currentLevel, isProcedural, 0)
  /\ afterTicks = 0
  /\ heldOrbs = 0
  /\ lastFlipX = FarPlayer.lastPortalX
  /\ orbLog = NoOrbLog
  /\ down = {}
  /\ ev = [NoEv EXCEPT !.gravityMult = -1, !.yBefore = FarPlayer.position.y]

SpecFar == InitFar /\ [][Next]_vars

\* ---------------------------------------------------------------------- App
\* GameRunner is rendered while gameState is PLAYING or TESTING
RunnerRendered(gs) == gs \in {"PLAYING", "TESTING"}

\* handleDie, handleWin and handleTestComplete as the frame's closures see
\* them: gs is the gameState of the render that made them, cur the value the
\* setGameState calls of this frame have produced so far
handleDie(gs, cur) == IF gs = "PLAYING" THEN "GAME_OVER" ELSE cur

handleWin(gs, cur) == IF gs = "PLAYING" THEN "WON" ELSE cur

handleTestComplete(gs, cur) == "EDITOR"

HostCall(c, gs, cur) ==
  IF c.fn = "onDie" THEN handleDie(gs, cur)
  ELSE IF c.fn = "onWin" THEN handleWin(gs, cur)
  ELSE handleTestComplete(gs, cur)

\* the gameState after the callbacks cs[i..] of one frame, in order
RECURSIVE HostCalls(_, _, _, _)
HostCalls(cs, i, gs, cur) ==
  IF i > Len(cs) THEN cur ELSE HostCalls(cs, i + 1, gs, HostCall(cs[i], gs, cur))

\* a frame of the GameRunner the App renders: the callbacks it invokes set
\* gameState, and leaving PLAYING / TESTING unmounts it (the loop effect's
\* cleanup cancels the frame just requested)
appLoop ==
  /\ Frame
  /\ gameState' = HostCalls(calls', Len(calls) + 1, gameState, gameState)
  /\ requestRef' = RunnerRendered(gameState')
  /\ frames' = IF RunnerRendered(gameState')
                 THEN RequestFrame(frames - 1)
                 ELSE CancelFrame(TRUE, RequestFrame(frames - 1))
  /\ audioRef' = (audioRef /\ RunnerRendered(gameState'))
  /\ audio' = IF RunnerRendered(gameState') THEN audio ELSE PauseAudio(audioRef, audio)
  /\ UNCHANGED << levelData, key >>

\* a PLAY button that runs the editor's level as a plain, non-procedural run
startProceduralOnLevel ==
  /\ gameState = "MENU"
  /\ gameState' = "PLAYING"
  /\ Mount(levelData, FALSE, FALSE, TRUE)
  /\ key < MaxKey
  /\ key' = key + 1
  /\ UNCHANGED levelData

startProcedural ==
  /\ gameState = "MENU"
  /\ gameState' = "PLAYING"
  /\ Mount(LevelProcedural, TRUE, FALSE, TRUE)
  /\ key < MaxKey
  /\ key' = key + 1
  /\ UNCHANGED levelData

\* the menu's EDITOR button
openEditor ==
  /\ gameState = "MENU"
  /\ gameState' = "EDITOR"
  /\ Discard
  /\ UNCHANGED << levelData, key >>

\* LevelEditor's onUpdateLevel = setLevelData
onUpdateLevel ==
  /\ gameState = "EDITOR"
  /\ \E l \in EditorLevels : levelData' = l
  /\ Discard
  /\ UNCHANGED << gameState, key >>

startEditorTest ==
  /\ gameState = "EDITOR"
  /\ gameState' = "TESTING"
  /\ Mount(levelData, FALSE, TRUE, TRUE)
  /\ key < MaxKey
  /\ key' = key + 1
  /\ UNCHANGED levelData

\* retry(GameState.PLAYING) on the game-over screen
retry ==
  /\ gameState = "GAME_OVER"
  /\ gameState' = "PLAYING"
  /\ Mount(LevelProcedural, TRUE, FALSE, TRUE)
  /\ key < MaxKey
  /\ key' = key + 1
  /\ UNCHANGED levelData

\* every setGameState(GameState.MENU): in-game EXIT, the editor's onExit, the
\* Menu buttons of the game-over and win screens
toMenu ==
  /\ gameState \in {"PLAYING", "TESTING", "EDITOR", "GAME_OVER", "WON"}
  /\ gameState' = "MENU"
  /\ Discard
  /\ UNCHANGED << levelData, key >>

AppInput ==
  /\ RunnerRendered(gameState)
  /\ \/ handleKeyDown
     \/ handleKeyUp
     \/ handleMouseDown
     \/ handleMouseUp

NextApp ==
  \/ appLoop
  \/ AppInput
  \/ startProcedural
  \/ openEditor
  \/ onUpdateLevel
  \/ startEditorTest
  \/ retry
  \/ toMenu

SpecApp == InitApp /\ [][NextApp]_vars

\* ------------------------------------------------------------ input sources
\* The listeners registered on window: keydown / keyup for the keyboard,
\* mousedown / mouseup for the mouse, touchstart / touchend for touch.  Here
\* each source is followed physically: it is pressed only when up and
\* released only when down.
Sources == {"key", "mouse", "touch"}

PressOf(s) ==
  /\ s \notin down
  /\ down' = down \cup {s}
  /\ OnPress

ReleaseOf(s) ==
  /\ s \in down
  /\ down' = down \ {s}
  /\ OnRelease

keydown == PressOf("key")

keyup == ReleaseOf("key")

mousedown == PressOf("mouse")

mouseup == ReleaseOf("mouse")

touchstart == PressOf("touch")

touchend == ReleaseOf("touch")

\* GameRunner mounted on its own on LevelShort or LevelOrbs, nothing pressed
InitInput ==
  /\ Init
  /\ currentLevel \in {LevelShort, LevelOrbs}
  /\ ~isTestMode

NextInput ==
  \/ loop
  \/ keydown
  \/ keyup
  \/ mousedown
  \/ mouseup
  \/ touchstart
  \/ touchend

SpecInput == InitInput /\ [][NextInput]_vars

\* ================================================================= properties
IsDeathReport(c) ==
  c.fn = "onDie" \/ (c.fn = "onTestComplete" /\ c.deathPos # NoPos)

IsFinishReport(c) ==
  c.fn = "onWin" \/ (c.fn = "onTestComplete" /\ c.deathPos = NoPos)

DeathReports == { i \in 1..Len(calls) : IsDeathReport(calls[i]) }

FinishReports == { i \in 1..Len(calls) : IsFinishReport(calls[i]) }

\* C1: in one run a death report and a finish report are never both issued,
\* and nothing is reported while the player is alive and has not passed the
\* finish line.
C1_DeathXorFinish ==
  /\ ~(DeathReports # {} /\ FinishReports # {})
  /\ (calls # << >> => player.isDead \/ PastFinish(player, currentLevel))

WinCalls == { i \in 1..Len(calls) : calls[i].fn = "onWin" }

\* C2: in a non-procedural, non-test run with length 50, onWin is invoked
\* exactly once in the whole run: not while position.x <= 2400, at the end of
\* the first tick that leaves position.x > 2400, and never again.
C2_WinExactlyOnce ==
  (currentLevel.length = 50 /\ ~isProcedural /\ ~isTestMode) =>
    /\ Cardinality(WinCalls) <= 1
    /\ (WinCalls # {} => player.position.x > 2400 * Fx)
    /\ (~player.isDead /\ player.position.x > 2400 * Fx => WinCalls # {})

\* C3: isDead is one-way, and once it is true no tick and no input event
\* changes the player's position or velocity or the recorded trail.
C3_DeadIsFinal ==
  [][player.isDead =>
       /\ player'.isDead
       /\ player'.position = player.position
       /\ player'.velocity = player.velocity
       /\ recordedTrail' = recordedTrail]_vars

\* a recorded run whose player is dead and on which a later tick has run
C3_Witness ==
  /\ player.isDead
  /\ ev.dead0
  /\ isTestMode
  /\ recordedTrail # << >>

\* C4: after a tick has reported the finish, no later tick changes the
\* player's position, velocity, grounded flag, gravity sign or speed
\* multiplier.
C4_WonIsTerminal ==
  [][(FinishReports # {} /\ timeRef' = timeRef + 1) =>
       /\ player'.position = player.position
       /\ player'.velocity = player.velocity
       /\ player'.isGrounded = player.isGrounded
       /\ player'.gravityScale = player.gravityScale
       /\ player'.speedMultiplier = player.speedMultiplier]_vars

C6_OutOfBoundsAnyGravity ==
  [][(/\ currentLevel.gameMode = "FREE"
      /\ ~player.isDead
      /\ (player.position.y > 1000 \/ player.position.y < -3000)
      /\ timeRef' = timeRef + 1)
       => (player'.isDead /\ Len(calls') > Len(calls))]_vars

\* C6 amended: in FREE mode, on a tick that an alive player starts under
\* inverted gravity, a position.y > 1000 or < -3000 after the tick's vertical
\* advance and collision resolution leaves the player dead with the death
\* reported, whatever the vertical velocity and the grounded flag.
C6_OutOfBoundsInverted ==
  (/\ currentLevel.gameMode = "FREE"
   /\ timeRef > 0
   /\ ~ev.dead0
   /\ ev.gravityMult = -1
   /\ (player.position.y > 1000 \/ player.position.y < -3000))
    => (player.isDead /\ DeathReports # {})

\* the band check has fired on a player flying upward under inverted gravity
C6_Witness ==
  /\ currentLevel.gameMode = "FREE"
  /\ ev.gravityMult = -1
  /\ ev.oob
  /\ player.position.y < -3000
  /\ player.isDead

\* the player and a tile share a column: pRect and the tile's box overlap in x
XOverlap(p, obj) ==
  /\ PRect(p).x < ObjX(obj) + TILE_SIZE * Fx
  /\ PRect(p).x + PRect(p).w > ObjX(obj)

\* C7: on a BLOCK overlap the landing is accepted exactly when the player
\* moves toward the block and its vertical position before this tick's
\* vertical advance was at most 15px past the landing plane; in every other
\* overlap the player dies.
C7_LandingWithin15 ==
  \A k \in 1..Len(ev.hits) :
    LET h == ev.hits[k]
        blockTop == ObjY(currentLevel.objects[h.i])
        blockBottom == blockTop + TILE_SIZE
        accepted ==
          IF ev.gravityMult = 1
            THEN h.vy >= 0 /\ ev.yBefore <= blockTop + 15
            ELSE h.vy <= 0 /\ ev.yBefore - TILE_SIZE >= blockBottom - 15
    IN  /\ h.landed <=> accepted
        /\ ~h.landed => (player.isDead /\ ev.killer = h.i)

C9_OrbOncePerHold ==
  /\ heldOrbs <= 1
  /\ \A k \in 1..Len(ev.near) :
       (ev.jump /\ ev.near[k].lock) =>
         \E j \in 1..Len(ev.orbs) : ev.orbs[j] = ev.near[k].i

\* an orb has fired during this hold, and a later tick has checked an orb with
\* jump still held and found the lock consumed
C9_Witness ==
  /\ heldOrbs = 1
  /\ ev.jump
  /\ ev.orbs = << >>
  /\ \E k \in 1..Len(ev.near) : ~ev.near[k].lock
  /\ ~player.isDead

\* C10: at the end of every tick, whatever its outcome, jumpPressedThisFrame
\* is false.
C10_PressedClearedEveryTick ==
  [][timeRef' = timeRef + 1 => ~inputRef'.jumpPressedThisFrame]_vars

\* C11: for every interleaving of press and release events of the keyboard,
\* the mouse and touch, inputRef.jump is true exactly while at least one of
\* the sources is physically pressed.
C11_HeldIffPressed == inputRef.jump <=> (down # {})

\* C12: however a run ends under App (death, test completion, EXIT, retry),
\* its frame loop is cancelled and its audio paused and cleared: once
\* GameRunner is no longer rendered no frame callback is pending, so no tick
\* of the run executes, and no Audio is held or playing; and at any time at
\* most one frame callback is pending and at most one Audio is held.
C12_RunEndReleases ==
  /\ frames <= 1
  /\ audio <= 1
  /\ ~RunnerRendered(gameState) =>
       /\ frames = 0
       /\ ~requestRef
       /\ audio = 0
       /\ ~audioRef

\* a procedural run has ended by death and a retry is on offer
C12_Witness ==
  /\ gameState = "GAME_OVER"
  /\ player.isDead
  /\ calls # << >>
  /\ frames = 0
  /\ audio = 0

\* The mirror image of the vertical world: the floor plane (0) is exchanged
\* with the ceiling plane (-CEILING_HEIGHT * TILE_SIZE), so a player resting
\* on the floor (y = 0) corresponds to one resting under the ceiling.
MirrorY(y) == -((CEILING_HEIGHT - 1) * TILE_SIZE) - y

MirrorPlayer(p) ==
  [p EXCEPT !.position.y = MirrorY(@), !.velocity.y = -@, !.gravityScale = -@]

\* the row whose tile (for a portal: whose 3-tile strip) is the mirror image
MirrorRow(obj) ==
  IF IsPortal(obj.type)
    THEN (CEILING_HEIGHT - 1) - obj.y
    ELSE (CEILING_HEIGHT + 1) - obj.y

MirrorLevel(level) ==
  [level EXCEPT !.objects =
     [i \in DOMAIN level.objects |->
        [level.objects[i] EXCEPT !.y = MirrorRow(level.objects[i])]]]

\* the next tick of the mirrored run is the mirror image of the next tick of
\* this run: same x, mirrored y and velocity.y, same grounded flag, same
\* reports to the host
StepMirrors ==
  LET r == update(player, inputRef, recordedTrail, calls, timeRef + 1, currentLevel)
      m == update(MirrorPlayer(player), inputRef, recordedTrail, calls, timeRef + 1,
                  MirrorLevel(currentLevel))
  IN  /\ m.p = MirrorPlayer(r.p)
      /\ m.jpf = r.jpf
      /\ Len(m.calls) = Len(r.calls)
      /\ \A i \in 1..Len(r.calls) : m.calls[i].fn = r.calls[i].fn

\* C14 as stated: for any level, tick and input sequence the run started with
\* gravityScale negated and the vertical quantities mirrored stays the mirror
\* image of the original run.
C14_MirrorAnyLevel == StepMirrors

\* C14 amended: in CLASSIC mode, on a level without half-spikes, the run
\* started with gravityScale negated and the vertical quantities mirrored
\* (tiles to row 13 - y, portal strips to row 11 - y) stays the mirror image
\* of the original run at every tick.
C14_MirrorClassic ==
  (/\ currentLevel.gameMode = "CLASSIC"
   /\ \A i \in 1..Len(currentLevel.objects) : currentLevel.objects[i].type # "HALF_SPIKE")
    => StepMirrors

\* a CLASSIC run has resolved a block overlap under inverted gravity and the
\* player is still running
C14_Witness ==
  /\ currentLevel.gameMode = "CLASSIC"
  /\ ev.gravityMult = -1
  /\ ev.hits # << >>
  /\ ~player.isDead

\* the same objects listed in the opposite order
Reversed(level) ==
  [level EXCEPT !.objects =
     [i \in DOMAIN level.objects |-> level.objects[Len(level.objects) + 1 - i]]]

\* C15: the order of level.objects is irrelevant to the simulation: from every
\* state of a run the next tick on the level with its object list permuted
\* (here: reversed) gives the same player state, speed multiplier and gravity
\* sign included, and the same reports to the host.
C15_OrderIrrelevant ==
  LET r == update(player, inputRef, recordedTrail, calls, timeRef + 1, currentLevel)
      q == update(player, inputRef, recordedTrail, calls, timeRef + 1,
                  Reversed(currentLevel))
  IN  /\ q.p = r.p
      /\ Len(q.calls) = Len(r.calls)
      /\ \A i \in 1..Len(r.calls) : q.calls[i].fn = r.calls[i].fn

\* the gravity orbs among the orbs a tick has activated
GravityOrbs(e, level) ==
  { j \in 1..Len(e.orbs) : level.objects[e.orbs[j]].type = "ORB_GRAVITY" }

\* C16: in every state of a run gravityScale is +1 or -1, and a step that
\* changes it is a tick that negates it and in which a gravity orb was
\* activated or a gravity portal flipped.
C16_GravitySign ==
  /\ [](player.gravityScale \in {1, -1})
  /\ [][player'.gravityScale # player.gravityScale =>
          /\ timeRef' = timeRef + 1
          /\ player'.gravityScale = -player.gravityScale
          /\ (ev'.flips # << >> \/ GravityOrbs(ev', currentLevel) # {})]_vars

\* a gravity orb has just been activated and the player now falls upwards
C16_Witness ==
  /\ GravityOrbs(ev, currentLevel) # {}
  /\ ev.flips = << >>
  /\ ev.gravityMult = 1
  /\ player.gravityScale = -1
  /\ ~player.isDead

\* C17: whenever a run is about to execute its first tick (procedural, test
\* or retry, whatever the previous run did) the player is in the initial
\* state: position (0,0), velocity.y 0, grounded, alive, gravityScale +1, orb
\* lock available, speedMultiplier 1.0, no last-gravity-portal x; and the
\* recorded trail is empty.
C17_RunStartsFresh ==
  (RunnerRendered(gameState) /\ timeRef = 0) =>
    /\ player.position = [x |-> 0, y |-> 0]
    /\ player.velocity.y = 0
    /\ player.isGrounded
    /\ ~player.isDead
    /\ player.gravityScale = 1
    /\ player.canOrbJump
    /\ player.speedMultiplier = Fx
    /\ player.lastPortalX = 0
    /\ recordedTrail = << >>

\* the second run of a session is mounted and has not run a tick yet
C17_Witness ==
  /\ key = 2
  /\ RunnerRendered(gameState)
  /\ timeRef = 0
  /\ player.position.x = 0

\* C18: in a procedural run every report to the host is a death report:
\* onWin and the finish-line test completion are never invoked, whatever x the
\* player has reached.
C18_ProceduralNeverWins ==
  isProcedural => \A i \in 1..Len(calls) : IsDeathReport(calls[i])

\* a procedural run has executed a tick with the living player beyond
\* x = length * TILE_SIZE
C18_Witness ==
  /\ isProcedural
  /\ timeRef > FarTick
  /\ PastFinish(player, currentLevel)
  /\ ~player.isDead
  /\ calls = << >>

\* C19: a release event (key up, mouse up, touch end), in any state and
\* between any two ticks, sets jump and jumpPressedThisFrame to false and
\* canOrbJump to true, and changes nothing else of the player, of the tick
\* count, of the trail or of the reports.
C19_ReleaseEffect ==
  [][(down' # down /\ down' \subseteq down) =>
       /\ inputRef' = [jump |-> FALSE, jumpPressedThisFrame |-> FALSE]
       /\ player' = [player EXCEPT !.canOrbJump = TRUE]
       /\ UNCHANGED << timeRef, recordedTrail, calls, currentLevel >>]_vars

\* the last tick activated an orb, which consumed the orb lock, and a release
\* since then has made the lock available again
C19_Witness ==
  /\ ev.orbs # << >>
  /\ player.canOrbJump
  /\ inputRef = [jump |-> FALSE, jumpPressedThisFrame |-> FALSE]
  /\ down = {}
  /\ ~player.isDead

\* the level with only its first k objects
Truncated(level, k) == [level EXCEPT !.objects = SubSeq(level.objects, 1, k)]

\* object j is a spike or half-spike whose hitbox the player's hitbox at
\* position pos overlaps
LethalOverlap(level, j, pos) ==
  /\ level.objects[j].type \in {"SPIKE", "HALF_SPIKE"}
  /\ checkCollision(PRect([position |-> pos]), HitBox(level.objects[j]))

\* C20: on a tick of a living player, an overlapped spike or half-spike or a
\* block whose landing test fails kills the player in that tick; the object
\* that kills is the first overlapped hazard of level.objects, and the objects
\* listed after it have no effect: the tick ends as it would on the level cut
\* off after the killing object.
C20_DeathEndsObjectLoop ==
  LET r == update(player, inputRef, recordedTrail, calls, timeRef + 1, currentLevel)
      k == r.ev.killer
      pos == [x |-> r.p.position.x, y |-> r.ev.yBefore + r.ev.vy]
      t == update(player, inputRef, recordedTrail, calls, timeRef + 1,
                  Truncated(currentLevel, k))
  IN  ~player.isDead =>
        /\ \A j \in 1..Len(currentLevel.objects) :
              LethalOverlap(currentLevel, j, pos) => (r.p.isDead /\ 0 < k /\ k <= j)
        /\ \A h \in 1..Len(r.ev.hits) :
              ~r.ev.hits[h].landed => (r.p.isDead /\ k = r.ev.hits[h].i)
        /\ k # 0 =>
              /\ r.p.isDead
              /\ t.p = r.p
              /\ t.jpf = r.jpf
              /\ t.calls = r.calls
              /\ Len(r.calls) = Len(calls) + 1

\* the first spike of LevelHazards has killed the player on a tick on which
\* the half-spike, both portals and the orb listed after it were within reach
\* and a press was pending: gravity, speed and velocity are untouched
C20_Witness ==
  /\ currentLevel = LevelHazards
  /\ ev.killer = 1
  /\ player.isDead
  /\ LethalOverlap(currentLevel, 2, player.position)
  /\ checkCollision(PRect(player), PortalRect(currentLevel.objects[3]))
  /\ checkCollision(PRect(player), PortalRect(currentLevel.objects[4]))
  /\ InOrbRadius(player, currentLevel.objects[5])
  /\ inputRef.jumpPressedThisFrame
  /\ player.gravityScale = 1
  /\ player.speedMultiplier = Fx
  /\ Len(calls) = 1

\* the level with the orbs the tick of observation e found within radius,
\* other than object i, moved out of the player's way
OtherOrbsAway(level, e, i) ==
  [level EXCEPT !.objects =
     [j \in DOMAIN level.objects |->
        IF j # i /\ \E k \in 1..Len(e.near) : e.near[k].i = j
          THEN [level.objects[j] EXCEPT !.x = -20]
          ELSE level.objects[j]]]

\* C21: at most one orb activates per tick: it is the first orb of
\* level.objects within radius, and the other orbs within radius leave the
\* player as the tick would without them.
C21_OneOrbPerTick ==
  LET r == update(player, inputRef, recordedTrail, calls, timeRef + 1, currentLevel)
      t == update(player, inputRef, recordedTrail, calls, timeRef + 1,
                  OtherOrbsAway(currentLevel, r.ev, r.ev.orbs[1]))
  IN  /\ Len(r.ev.orbs) <= 1
      /\ r.ev.orbs # << >> =>
            /\ r.ev.orbs[1] = r.ev.near[1].i
            /\ t.p = r.p
            /\ t.jpf = r.jpf
            /\ t.calls = r.calls

\* the last tick found at least two orbs within radius with jump held and
\* activated one of them
C21_Witness ==
  /\ Len(ev.near) >= 2
  /\ Len(ev.orbs) = 1
  /\ ev.jump
  /\ ~player.isDead

\* velocity.y an orb of the given type leaves, for a tick started under
\* gravity sign gravityMult
ImpulseOf(type, gravityMult) ==
  IF type = "ORB_JUMP" THEN ORB_JUMP_FORCE * gravityMult
  ELSE IF type = "ORB_JUMP_PURPLE" THEN ORB_JUMP_PURPLE_FORCE * gravityMult
  ELSE IF type = "ORB_JUMP_RED" THEN ORB_JUMP_RED_FORCE * gravityMult
  ELSE (JUMP_FORCE \div 2) * (-gravityMult)

\* C22: a tick in which an orb activates ends with the player alive, airborne
\* and with velocity.y equal to the orb's impulse (for the gravity orb: with
\* gravityScale negated and half of JUMP_FORCE in the new direction); nothing
\* later in the tick cancels the impulse or kills the player.
C22_OrbImpulseStands ==
  ev.orbs # << >> =>
    LET type == currentLevel.objects[ev.orbs[1]].type
    IN  /\ ~player.isDead
        /\ ~player.isGrounded
        /\ player.velocity.y = ImpulseOf(type, ev.gravityMult)
        /\ (type = "ORB_GRAVITY" /\ ev.flips = << >>) =>
              player.gravityScale = -ev.gravityMult

\* the object loop of the tick of observation e got as far as object i
Visited(e, i) == e.killer = 0 \/ e.killer >= i

\* the player's position on which the tick of observation e, ending with the
\* player at x, tested its overlaps
TestedPos(e, x) == [x |-> x, y |-> e.yBefore + e.vy]

\* gravity portal i of the level is overlapped at position pos
GravityPortalOverlap(level, i, pos) ==
  /\ level.objects[i].type = "PORTAL_GRAVITY"
  /\ checkCollision(PRect([position |-> pos]), PortalRect(level.objects[i]))

\* C23: a tick flips gravity by a portal at most once, at an x more than
\* 2 * TILE_SIZE beyond the x of the run's previous portal flip, and the first
\* gravity portal the object loop of a living player finds overlapped in a
\* run always flips.
C23_PortalFlipsApart ==
  [][timeRef' = timeRef + 1 =>
       /\ ev'.flips # << >> =>
             /\ Len(ev'.flips) = 1
             /\ lastFlipX >= 0 => player'.position.x - lastFlipX > (2 * TILE_SIZE) * Fx
       /\ (/\ lastFlipX = -1
           /\ ~ev'.dead0
           /\ \E i \in 1..Len(currentLevel.objects) :
                 /\ Visited(ev', i)
                 /\ GravityPortalOverlap(currentLevel, i,
                                         TestedPos(ev', player'.position.x)))
            => ev'.flips # << >>]_vars

\* a second portal flip of the run has just happened, after the player had
\* crossed another gravity portal without a flip
C23_Witness ==
  /\ currentLevel = LevelPortals
  /\ ev.flips = << 3 >>
  /\ lastFlipX = player.position.x
  /\ player.gravityScale = 1

\* the y at which a player rests under the ceiling of CLASSIC mode
CeilingRestY == -((CEILING_HEIGHT - 1) * TILE_SIZE)

\* C24: at the end of every tick the player survives: if gravity was normal
\* at the start of the tick then y <= 0, and a player at the floor (one whose
\* advance reached or passed it without landing on a block included) is at
\* y = 0 with velocity.y = 0 and grounded; if gravity was inverted at the
\* start of the tick and the mode is CLASSIC then y >= -528, and a player at
\* the ceiling is at -528 with velocity.y = 0 and grounded.
C24_Containment ==
  (timeRef > 0 /\ ~ev.dead0 /\ ~player.isDead) =>
    /\ ev.gravityMult = 1 =>
          /\ player.position.y <= 0
          /\ (ev.yBefore + ev.vy >= 0 /\ ev.hits = << >>) => player.position.y = 0
          /\ player.position.y = 0 => (player.velocity.y = 0 /\ player.isGrounded)
    /\ (ev.gravityMult = -1 /\ currentLevel.gameMode = "CLASSIC") =>
          /\ player.position.y >= CeilingRestY
          /\ (ev.yBefore + ev.vy <= CeilingRestY /\ ev.hits = << >>) =>
                player.position.y = CeilingRestY
          /\ player.position.y = CeilingRestY =>
                (player.velocity.y = 0 /\ player.isGrounded)

\* a tick started under inverted gravity in CLASSIC mode took the player, who
\* was flying upwards, past the ceiling rest height and left it at rest there
C24_Witness ==
  /\ currentLevel.gameMode = "CLASSIC"
  /\ ev.gravityMult = -1
  /\ ev.vy < 0
  /\ ev.yBefore + ev.vy < CeilingRestY
  /\ player.position.y = CeilingRestY
  /\ player.isGrounded
  /\ ~player.isDead

\* C25: in CLASSIC mode the playfield is closed on both sides whatever the
\* gravity sign: a living player is never below the floor plane (y > 0) nor
\* above the ceiling rest height (y < -528).
C25_ClassicClosed ==
  (currentLevel.gameMode = "CLASSIC" /\ ~player.isDead) =>
    (CeilingRestY <= player.position.y /\ player.position.y <= 0)

\* C26: a tick of a living, grounded player with jump held sets velocity.y to
\* JUMP_FORCE * gravityScale, clears grounded and consumes the orb lock, and
\* activates no orb: the player, if it survives the tick, ends it airborne
\* with that velocity.
C26_GroundJump ==
  [][(timeRef' = timeRef + 1 /\ ~player.isDead /\ inputRef.jump /\ player.isGrounded) =>
       /\ ev'.vy = JUMP_FORCE * player.gravityScale
       /\ ev'.orbs = << >>
       /\ ~player'.canOrbJump
       /\ ~player'.isDead =>
             /\ ~player'.isGrounded
             /\ player'.velocity.y = JUMP_FORCE * player.gravityScale]_vars

\* the last tick was a ground jump from the floor taken within the radius of
\* an orb, with the orb lock available when the tick began: the orb was found
\* locked and did not activate
C26_Witness ==
  /\ ev.jump
  /\ ev.yBefore = 0
  /\ ev.vy = JUMP_FORCE
  /\ ev.near # << >>
  /\ ev.orbs = << >>
  /\ inputRef.jumpPressedThisFrame = FALSE
  /\ player.position.y = JUMP_FORCE
  /\ ~player.isGrounded
  /\ ~player.isDead

\* block i of the level has its landing surface (its underside, when
\* inverted) within 5px of the player's y
SurfaceAt(p, gravityMult, level, i) ==
  /\ level.objects[i].type = "BLOCK"
  /\ IF gravityMult = 1
       THEN Abs(p.position.y - ObjY(level.objects[i])) < 5
       ELSE Abs(p.position.y - (ObjY(level.objects[i]) + 2 * TILE_SIZE)) < 5

\* the player's horizontal centre lies strictly within the width of such a block
OverBlock(p, gravityMult, level) ==
  LET pX == p.position.x + (TILE_SIZE \div 2) * Fx
  IN  \E i \in 1..Len(level.objects) :
        /\ SurfaceAt(p, gravityMult, level, i)
        /\ ObjX(level.objects[i]) < pX
        /\ pX < ObjX(level.objects[i]) + TILE_SIZE * Fx

\* the player's horizontal centre lies exactly on the seam between two such
\* blocks next to each other
OnSeam(p, gravityMult, level) ==
  LET pX == p.position.x + (TILE_SIZE \div 2) * Fx
  IN  \E i, j \in 1..Len(level.objects) :
        /\ SurfaceAt(p, gravityMult, level, i)
        /\ SurfaceAt(p, gravityMult, level, j)
        /\ ObjX(level.objects[i]) + TILE_SIZE * Fx = pX
        /\ ObjX(level.objects[j]) = pX

\* the player rests on the floor plane, or on the ceiling plane of CLASSIC
\* mode when inverted
OnPlane(p, gravityMult, level) ==
  IF gravityMult = 1
    THEN p.position.y = 0
    ELSE level.gameMode = "CLASSIC" /\ p.position.y = CeilingRestY

\* a tick of a living grounded player with jump not held, which the player
\* survives, leaves it grounded at the same y
StaysGrounded ==
  (timeRef' = timeRef + 1 /\ ~player'.isDead) =>
    (player'.isGrounded /\ player'.position.y = player.position.y)

\* C27: a grounded player with jump not held stays grounded with unchanged y
\* on every tick on which it rests on the plane of its gravity sign, or its
\* horizontal centre lies over (under) a block whose landing surface is within
\* 5px of its y, the seam between two adjacent such blocks included.
C27_StableOnSupport ==
  [][(/\ ~player.isDead /\ player.isGrounded /\ ~inputRef.jump
      /\ \/ OnPlane(player, player.gravityScale, currentLevel)
         \/ OverBlock(player, player.gravityScale, currentLevel)
         \/ OnSeam(player, player.gravityScale, currentLevel))
       => StaysGrounded]_vars

\* the fixed constant of each kind of speed portal, in tenths
SpeedConstant(type) ==
  IF type = "PORTAL_SPEED_SLOW" THEN 8
  ELSE IF type = "PORTAL_SPEED_NORMAL" THEN 10
  ELSE IF type = "PORTAL_SPEED_FAST" THEN 12
  ELSE 14

IsSpeedPortal(type) ==
  type \in {"PORTAL_SPEED_SLOW", "PORTAL_SPEED_NORMAL", "PORTAL_SPEED_FAST",
            "PORTAL_SPEED_VERY_FAST"}

\* speed portal i of the level is overlapped at position pos
SpeedPortalOverlap(level, i, pos) ==
  /\ IsSpeedPortal(level.objects[i].type)
  /\ checkCollision(PRect([position |-> pos]), PortalRect(level.objects[i]))

\* the speed portals the object loop of the tick of observation e reached and
\* found overlapped, the player ending the tick at x
SpeedPortalsMet(level, e, x) ==
  { i \in 1..Len(level.objects) :
      Visited(e, i) /\ SpeedPortalOverlap(level, i, TestedPos(e, x)) }

Max(S) == CHOOSE m \in S : \A n \in S : n <= m

\* C28 as stated: whenever the player's hitbox overlaps a speed portal's strip
\* on a tick, speedMultiplier becomes that portal's constant; and it is always
\* one of 0.8, 1.0, 1.2, 1.4.
C28_SpeedOfAnyOverlap ==
  /\ [](player.speedMultiplier \in {8, 10, 12, 14})
  /\ [][(timeRef' = timeRef + 1 /\ ~player.isDead) =>
          \A i \in 1..Len(currentLevel.objects) :
            SpeedPortalOverlap(currentLevel, i, TestedPos(ev', player'.position.x)) =>
              player'.speedMultiplier = SpeedConstant(currentLevel.objects[i].type)]_vars

\* C28 amended: a tick of a living player leaves speedMultiplier at the
\* constant of the last speed portal of level.objects that its object loop
\* reached and found overlapped, and unchanged if there is none; and it is
\* always one of 0.8, 1.0, 1.2, 1.4.
C28_SpeedOfLastOverlap ==
  /\ [](player.speedMultiplier \in {8, 10, 12, 14})
  /\ [][(timeRef' = timeRef + 1 /\ ~player.isDead) =>
          LET met == SpeedPortalsMet(currentLevel, ev', player'.position.x)
          IN  player'.speedMultiplier =
                IF met = {} THEN player.speedMultiplier
                ELSE SpeedConstant(currentLevel.objects[Max(met)].type)]_vars

\* the last tick overlapped the very-fast portal again with the multiplier
\* already at 1.4, after the run had gone through the column of two portals
C28_Witness ==
  /\ currentLevel = LevelSpeed
  /\ player.speedMultiplier = 14
  /\ SpeedPortalsMet(currentLevel, ev, player.position.x) = {3}
  /\ player.velocity.x = MOVE_SPEED * 14
  /\ ~player.isDead

\* the least advance of x in one tick, MOVE_SPEED * 0.8, in tenths of a pixel
MinAdvance == MOVE_SPEED * 8

\* the run has executed at least length * TILE_SIZE / 7.2 + 1 ticks
TickBoundReached ==
  MinAdvance * (timeRef - 1) >= (currentLevel.length * TILE_SIZE) * Fx

\* C29 as stated: a non-procedural run has reported a death or the finish
\* once its tick count has reached length * TILE_SIZE / 7.2 + 1, whatever the
\* level and the inputs.
C29_RunEndsInBound ==
  (~isProcedural /\ TickBoundReached) => (player.isDead \/ FinishReports # {})

\* C29: a non-procedural run has reported a death or the finish once it has
\* executed at least one tick and its tick count has reached
\* length * TILE_SIZE / 7.2 + 1, whatever the level and the inputs.
C29_RunEndsInTime ==
  (~isProcedural /\ timeRef >= 1 /\ TickBoundReached) =>
    (player.isDead \/ FinishReports # {})

\* a run made at speed 0.8 throughout, on the first tick at which its tick
\* count has reached the bound: the finish has been reported
C29_Witness ==
  /\ ~isProcedural
  /\ TickBoundReached
  /\ MinAdvance * (timeRef - 2) < (currentLevel.length * TILE_SIZE) * Fx
  /\ currentLevel.length > 0
  /\ player.speedMultiplier = 8
  /\ ~player.isDead
  /\ FinishReports # {}

\* C30: on every tick of a run the recorded trail either stays as it was or
\* gains one sample, the player's position at the start of the tick; a tick
\* of a dead player adds none; outside test mode the trail stays empty; and
\* in test mode a living player is sampled on every second tick, so that
\* after n ticks the trail holds n / 2 samples, rounded either way.
C30_TrailEverySecondTick ==
  [][timeRef' = timeRef + 1 =>
       /\ recordedTrail' \in { recordedTrail, Append(recordedTrail, player.position) }
       /\ player.isDead => recordedTrail' = recordedTrail
       /\ ~isTestMode => recordedTrail' = << >>
       /\ (isTestMode /\ ~player.isDead) =>
            2 * Len(recordedTrail') \in (timeRef' - 1)..(timeRef' + 1)]_vars

\* the finish was reported by the first tick of the run
FinishOnFirstTick == timeRef >= 1 => (FinishReports # {} /\ 1 \in FinishReports)

\* C31 as stated: with an empty object list the player never dies, and a
\* non-procedural run on a level of length <= 0 reports the finish on its
\* very first tick.
C31_DegenerateLevels ==
  /\ currentLevel.objects = << >> => ~player.isDead
  /\ (~isProcedural /\ currentLevel.length <= 0) => FinishOnFirstTick

\* C31: with an empty object list the player never dies, and a
\* non-procedural run on a level of length <= 0 reports the finish on its
\* very first tick unless the player dies on that tick; the death is then
\* reported on that tick and the finish never.
C31_DegenerateUnlessDead ==
  /\ currentLevel.objects = << >> => ~player.isDead
  /\ (~isProcedural /\ currentLevel.length <= 0 /\ timeRef >= 1) =>
       /\ calls # << >>
       /\ 1 \in FinishReports \/ (1 \in DeathReports /\ player.isDead /\ FinishReports = {})

\* the first tick of an empty level of negative length in FREE mode has
\* reported the finish and the player lives on
C31_Witness ==
  /\ currentLevel = LevelNegative
  /\ timeRef = 1
  /\ FinishReports = {1}
  /\ ~player.isDead

\* C32: every orb activation uses up a press transition made since the
\* previous activation, so the activations of a run never outnumber its press
\* transitions; and from an activation until the next release jump stays held
\* and no press transition occurs, so a release and then a press lie between
\* any two activations.
C32_OrbNeedsNewPress ==
  [][/\ timeRef' = timeRef + 1 =>
          /\ Len(ev'.orbs) <= orbLog.credit
          /\ ev'.orbs # << >> => heldOrbs = 0
     /\ heldOrbs' >= 1 => (inputRef'.jump /\ orbLog'.credit = 0)]_vars

\* the second orb activation of a run has just happened
C32_Witness ==
  /\ orbLog.orbs = 2
  /\ ev.orbs # << >>
  /\ heldOrbs = 1
  /\ ~player.isDead

\* C33: at the end of every tick of a living player, isGrounded implies
\* velocity.y = 0.
C33_GroundedAtRest ==
  (~player.isDead /\ player.isGrounded) => player.velocity.y = 0

\* a tick on which the player came down onto a block at a nonzero vertical
\* velocity and ended grounded
C33_Witness ==
  /\ ~player.isDead
  /\ player.isGrounded
  /\ ~ev.dead0
  /\ \E k \in 1..Len(ev.hits) : ev.hits[k].landed /\ ev.hits[k].vy # 0
  /\ player.position.y < 0

\* C34: in every reachable state jumpPressedThisFrame implies jump, and the
\* orb gate evaluated on the latch and the orb lock equals jump held with the
\* lock available.
C34_PressedImpliesHeld ==
  /\ inputRef.jumpPressedThisFrame => inputRef.jump
  /\ OrbGate(inputRef.jumpPressedThisFrame, inputRef.jump, player.canOrbJump)
       <=> (inputRef.jump /\ player.canOrbJump)

\* a fresh press is latched, with the lock available, while the living player
\* is within the radius of an orb
C34_Witness ==
  /\ inputRef.jumpPressedThisFrame
  /\ inputRef.jump
  /\ player.canOrbJump
  /\ ~player.isDead
  /\ timeRef > 0
  /\ \E i \in 1..Len(currentLevel.objects) :
       /\ IsOrb(currentLevel.objects[i].type)
       /\ InOrbRadius(player, currentLevel.objects[i])

\* velocity.y after gravity has been added under sign g and the terminal
\* velocity of that sign applied
FallVelocity(vy, g) ==
  LET v == vy + GRAVITY * g
  IN  IF g = 1 THEN (IF v > TERMINAL_VELOCITY THEN TERMINAL_VELOCITY ELSE v)
      ELSE (IF v < -TERMINAL_VELOCITY THEN -TERMINAL_VELOCITY ELSE v)

\* the tick of observation e has landed the player on a block
LandedOnBlock(e) == \E k \in 1..Len(e.hits) : e.hits[k].landed

\* C35: on every tick of a living player, with g the gravity sign the player
\* has at the start of the tick: the velocity of the vertical advance is 0,
\* the jump velocity of sign g, or the fall velocity integrated and clamped
\* for sign g; a block landing is made from the side of sign g; a jump orb
\* leaves its impulse with sign g; and the floor (g = 1) or the ceiling
\* (g = -1, CLASSIC) clamp is the one applied, whether or not an orb or a
\* portal has flipped gravityScale during the tick.
C35_StartSignDecides ==
  [][(timeRef' = timeRef + 1 /\ ~player.isDead) =>
       LET g == player.gravityScale
           e == ev'
           q == player'
           testedY == e.yBefore + e.vy
       IN  /\ e.vy \in {0, JUMP_FORCE * g, FallVelocity(player.velocity.y, g)}
           /\ \A k \in 1..Len(e.hits) : e.hits[k].landed => g * e.hits[k].vy >= 0
           /\ (/\ Len(e.orbs) = 1
               /\ currentLevel.objects[e.orbs[1]].type # "ORB_GRAVITY"
               /\ ~q.isGrounded
               /\ ~q.isDead) =>
                 q.velocity.y = ImpulseOf(currentLevel.objects[e.orbs[1]].type, g)
           /\ (~q.isDead /\ ~LandedOnBlock(e) /\ g = 1 /\ testedY >= 0) =>
                 (q.position.y = 0 /\ q.isGrounded /\ q.velocity.y = 0)
           /\ (/\ ~q.isDead
               /\ ~LandedOnBlock(e)
               /\ g = -1
               /\ currentLevel.gameMode = "CLASSIC"
               /\ testedY <= CeilingRestY) =>
                 (q.position.y = CeilingRestY /\ q.isGrounded /\ q.velocity.y = 0)]_vars

\* a jump has come down to the floor on the tick on which a gravity portal
\* flipped the sign: the player rests on the floor with gravity inverted
C35_Witness ==
  /\ ev.flips # << >>
  /\ ev.gravityMult = 1
  /\ player.gravityScale = -1
  /\ ev.vy > 0
  /\ ev.yBefore + ev.vy >= 0
  /\ player.position.y = 0
  /\ player.isGrounded
  /\ ~player.isDead

\* the values of LevelObject.rotation
Rotations == {0, 90, 180, 270}

\* the level with the rotation of object i (of every object, for i = 0) set to r
Rotated(level, i, r) ==
  [level EXCEPT !.objects =
     [k \in DOMAIN level.objects |->
        IF i = 0 \/ k = i
          THEN [type |-> level.objects[k].type, x |-> level.objects[k].x,
                y |-> level.objects[k].y, rotation |-> r]
          ELSE level.objects[k]]]

\* C36: the simulation ignores object rotation: from every state of a run the
\* next tick on a level that differs in the rotation of all its objects, or
\* has one object turned by 180 degrees, gives the same player, the same
\* input latch, the same trail and the same reports to the host.
C36_RotationIgnored ==
  LET r == update(player, inputRef, recordedTrail, calls, timeRef + 1, currentLevel)
  IN  /\ \A rot \in Rotations :
           update(player, inputRef, recordedTrail, calls, timeRef + 1,
                  Rotated(currentLevel, 0, rot)) = r
      /\ \A i \in 1..Len(currentLevel.objects) :
           update(player, inputRef, recordedTrail, calls, timeRef + 1,
                  Rotated(currentLevel, i, 180)) = r

\* the living player passes over a half spike, clear of its hitbox but inside
\* the part of the tile the hitbox would cover were it turned by 180 degrees
C36_Witness ==
  /\ ~player.isDead
  /\ timeRef > 0
  /\ \E i \in 1..Len(currentLevel.objects) :
       /\ currentLevel.objects[i].type = "HALF_SPIKE"
       /\ ~checkCollision(PRect(player), HitBox(currentLevel.objects[i]))
       /\ checkCollision(PRect(player),
                         HitBoxTurned(Rotated(currentLevel, i, 180).objects[i]))

====
